---- MODULE Spec2Model ----
(***************************************************************************)
(* A model of downloader.py: the batch fetcher (download_batch), the range *)
(* downloader (download), the csv writer (write) and the top-level script. *)
(*                                                                         *)
(* Time values are UNIX seconds (datetime_format UNIX).  The server sends  *)
(* a candle's time as text with a fractional part, modelled as a record    *)
(* [sec, frac]; the text of a whole number and the number itself are one   *)
(* value here, so int("15") is 15.  A candle's price and volume fields are *)
(* copied through by the program and are not modelled.                     *)
(***************************************************************************)
EXTENDS Integers, Sequences, FiniteSets

(* ------------------------------ bounds --------------------------------- *)

\* Candle times of the data source lie in 1..MaxT; the clock reads MaxT.
MaxT == 4

\* The server's maximum number of candles per request (5000 in the source),
\* scaled down so that a data source of MaxT candles needs several batches.
MAX_API_CANDLES == 2

\* The config's from_time, when given, lies in 0..MaxFrom.
MaxFrom == 1

(* ----------------------------- constants ------------------------------- *)

\* The starting time when the config gives none (the time origin here).
MIN_TIME == 0

\* Python's None, and a key that is not in a dictionary.
None == 0 - 1
Absent == 0 - 2

\* int(time()) of the run: no candle of the data source is later.
Now == MaxT

MaxCountMsg == "Maximum value for 'count' exceeded"
OtherMsg == "Invalid value specified for 'instrument'"

VARIABLES
  source,          \* the data source: the set of candle times the server has
  entry,           \* "main": the script is run; "download": download() is called
  cfg,             \* the configuration dictionary, mutated by download()
  pc,              \* the position of the run
  to_time,         \* download(): local to_time
  from_time,       \* download(): local from_time (the progress bar's start)
  is_first_batch,  \* download(): local is_first_batch
  result,          \* download(): local result
  batch,           \* the value of the latest download_batch() that returned
  reqLog,          \* the network attempts of the latest batch call
  batchCalls,      \* the number of download_batch() calls issued
  returned,        \* download() has returned its result
  candles,         \* what download() returned
  file,            \* the output file
  msgs,            \* the messages printed by the script
  bars,            \* the progress bars printed by download()
  failure,         \* the exception that ended the run, or "none"
  request          \* the from_time and to_time download() was called with

vars == <<source, entry, cfg, pc, to_time, from_time, is_first_batch, result,
          batch, reqLog, batchCalls, returned, candles, file, msgs, bars,
          failure, request>>

(* ------------------------------ helpers -------------------------------- *)

RECURSIVE SortedSeq(_)
SortedSeq(S) ==
  IF S = {} THEN <<>>
  ELSE LET m == CHOOSE x \in S : \A y \in S : x <= y
       IN  <<m>> \o SortedSeq(S \ {m})

Last(s) == s[Len(s)]

Times(cs) == [i \in 1..Len(cs) |-> cs[i].time]

(* ------------------------- time conversions ---------------------------- *)

\* re.sub('\..*', '', time): the text up to the first dot.
time_crop_fraction(time) == time.sec

\* int(time) for a UNIX time; None stays None.
time_to_unix(time) == IF time = None THEN None ELSE time

(* ---------------------------- the server ------------------------------- *)

\* The candles a request selects: later than fromTime (includeFirst is
\* False), then the first `count` of them, or those up to toTime.
Window(kw) ==
  LET after == {t \in source : t > kw.fromTime}
  IN  IF kw.count # Absent
        THEN {t \in after : Cardinality({u \in after : u < t}) < kw.count}
      ELSE IF kw.toTime = None THEN after
      ELSE {t \in after : t <= kw.toTime}

RawCandle(t) == [time |-> [sec |-> t, frac |-> 0]]

OkResponse(kw) ==
  LET ts == SortedSeq(Window(kw))
  IN  [status |-> 200, errorMessage |-> "",
       candles |-> [i \in 1..Len(ts) |-> RawCandle(ts[i])]]

ErrorResponse(m) == [status |-> 400, errorMessage |-> m, candles |-> <<>>]

\* More candles are asked for than the server gives in one response.
TooMany(kw) ==
  IF kw.count # Absent THEN kw.count > MAX_API_CANDLES
  ELSE Cardinality(Window(kw)) > MAX_API_CANDLES

\* What the server may answer: the candles, or the count error when there
\* are too many; and it may reject any request with either message.
Responses(kw) ==
  {IF TooMany(kw) THEN ErrorResponse(MaxCountMsg) ELSE OkResponse(kw)}
    \cup {ErrorResponse(MaxCountMsg), ErrorResponse(OtherMsg)}

ConnectionFaults == {"V20ConnectionError", "V20Timeout"}

(* --------------------------- download_batch ---------------------------- *)

\* Kwargs that never sends 'count'.
KwargsToTimeOnly(c) ==
  [fromTime |-> c.from_time,
   includeFirst |-> FALSE,
   count |-> Absent,
   toTime |-> c.to_time]

\* The keyword arguments of the API call: 'count' if cfg has it, else
\* 'toTime'.
Kwargs(c) ==
  [fromTime |-> c.from_time,
   includeFirst |-> FALSE,
   count |-> IF c.count # Absent THEN c.count ELSE Absent,
   toTime |-> IF c.count # Absent THEN Absent ELSE c.to_time]

\* RetryLimit with one attempt too many: range(0, 6).
RetryLimitSix == 5 + 1

\* for i in range(0, 5)
RetryLimit == 5

\* except (v20.errors.V20ConnectionError, v20.errors.V20Timeout): continue
Retryable(e) == e \in ConnectionFaults

\* ErrorOf that takes every error response for the count error.
ErrorOfStatusOnly(response) ==
  IF response.status # 200 THEN "MaxCountError" ELSE "none"

\* What download_batch raises on a response, or "none".
ErrorOf(response) ==
  IF response.status # 200
    THEN IF response.errorMessage = MaxCountMsg THEN "MaxCountError"
         ELSE "APIError"
  ELSE "none"

\* CandlesOf that leaves out the first candle of the response.
CandlesAfterFirst(response) ==
  [i \in 1..(Len(response.candles) - 1) |->
     [time |-> time_crop_fraction(response.candles[i + 1].time)]]

\* The list download_batch builds from the response's candles.
CandlesOf(response) ==
  [i \in 1..Len(response.candles) |->
     [time |-> time_crop_fraction(response.candles[i].time)]]

\* The attempts of the batch call in progress: a call that got its
\* response is over, and the next attempt opens a new call.
CurrentLog ==
  IF reqLog # <<>> /\ Last(reqLog).outcome \notin ConnectionFaults THEN <<>>
  ELSE reqLog

\* One more attempt, with the error message of its response ("" when it
\* has none) and what it came to: the connection failure, else what the
\* response made download_batch raise, or "none".
Logged(outcome, message) ==
  Append(CurrentLog,
         [kwargs |-> Kwargs(cfg), outcome |-> outcome, message |-> message])

(* ------------------------------ download ------------------------------- *)

\* CaughtByDownload with the loop's batch call inside the try block too.
CaughtMaxCountAnywhere(e, at) == e = "MaxCountError"

\* CaughtByDownload with a bare except clause around the first call.
CaughtAnyError(e, at) == at = "first"

\* try: result = download_batch(api, cfg)  except MaxCountError:
\* only the first call stands in the try block.
CaughtByDownload(e, at) == at = "first" /\ e = "MaxCountError"

\* Truncated that appends the batch as it is.
NotTruncated(b, to) == b

\* Truncated that compares with < instead of <=.
TruncatedBefore(b, to) ==
  LET over == {i \in 1..Len(b) : ~(time_to_unix(b[i].time) < to)}
  IN  IF over = {} THEN b
      ELSE SubSeq(b, 1, (CHOOSE i \in over : \A j \in over : i <= j) - 1)

\* for candle in batch: append while the candle's time <= to_time, then break.
Truncated(b, to) ==
  LET over == {i \in 1..Len(b) : ~(time_to_unix(b[i].time) <= to)}
  IN  IF over = {} THEN b
      ELSE SubSeq(b, 1, (CHOOSE i \in over : \A j \in over : i <= j) - 1)

\* AppendsWhole that never looks at to_time.
AppendsAnyBatch(b, to) == TRUE

\* A non-empty batch lies in the time range and is appended as a whole.
AppendsWhole(b, to) == to = None \/ time_to_unix(Last(b).time) <= to

\* MoveWindow that moves the window to the start of the batch.
MoveWindowToFirst(b) == b[1].time

\* cfg['from_time'] = batch[-1]['time']
MoveWindow(b) == Last(b).time

\* EffectiveStart that keeps the requested from_time.
RequestedStart(first, start, b) == start

\* if is_first_batch: from_time = time_to_unix(batch[0]['time'])
EffectiveStart(first, start, b) ==
  IF first THEN time_to_unix(b[1].time) ELSE start

\* percentage = (current - start) / (end - start) * 100, as a fraction.
progress_bar(start, current, end) ==
  [num |-> (current - start) * 100, den |-> end - start]

\* What evaluating progress_bar raises, or "none".
ProgressError(start, end) ==
  IF end = None THEN "TypeError"
  ELSE IF end - start = 0 THEN "ZeroDivisionError"
  ELSE "none"

(* ------------------------------- script -------------------------------- *)

\* The except clauses around download() and write().
Handled ==
  {"APIError", "IOError", "KeyError", "ConnectionError", "KeyboardInterrupt"}

Message(e) ==
  CASE e = "APIError" -> "API error occured"
    [] e = "IOError" -> "Can't write to an output csv file"
    [] e = "KeyError" -> "No results."
    [] e = "ConnectionError" -> "Could not connect"
    [] e = "KeyboardInterrupt" -> "Keyboard interrupt. Exiting without saving."
    [] OTHER -> ""

\* An exception leaves download() or write(): the script's handlers print
\* a message, or the exception leaves the script; a direct caller of
\* download() gets the exception.
Raise(e) ==
  /\ failure' = e
  /\ IF entry = "download" THEN pc' = "raised" /\ msgs' = msgs
     ELSE IF e \in Handled THEN pc' = "exit" /\ msgs' = Append(msgs, Message(e))
     ELSE pc' = "crashed" /\ msgs' = msgs

\* download() returns value; the script goes on to write it.
Return(value) ==
  /\ returned' = TRUE
  /\ candles' = value
  /\ failure' = failure
  /\ IF entry = "main"
       THEN pc' = "write" /\ msgs' = Append(msgs, "Writing to csv file...")
     ELSE pc' = "returned" /\ msgs' = msgs

(* -------------------------------- Init --------------------------------- *)

FromTimes == {None} \cup (0..MaxFrom)
ToTimes == {None} \cup (0..MaxT)

\* The config's from_time does not lie after its to_time.  download() called
\* directly is given a from_time.
Init ==
  /\ source \in SUBSET (1..MaxT)
  /\ entry \in {"main", "download"}
  /\ cfg \in {c \in [from_time : FromTimes, to_time : ToTimes, count : {Absent}] :
                /\ (c.from_time # None /\ c.to_time # None)
                      => c.from_time <= c.to_time
                /\ entry = "download" => c.from_time # None}
  /\ pc = IF entry = "main" THEN "main" ELSE "download"
  /\ to_time = None
  /\ from_time = None
  /\ is_first_batch = FALSE
  /\ result = <<>>
  /\ batch = <<>>
  /\ reqLog = <<>>
  /\ batchCalls = 0
  /\ returned = FALSE
  /\ candles = <<>>
  /\ file = [exists |-> FALSE, header |-> FALSE, rows |-> <<>>]
  /\ msgs = <<>>
  /\ bars = <<>>
  /\ failure = "none"
  /\ request = [from_time |-> None, to_time |-> None]

(* ------------------------------ actions -------------------------------- *)

dlLocals == <<to_time, from_time, is_first_batch, result, batch>>

\* run_path(config_file) finds no file.
ConfigMissing ==
  /\ pc = "main"
  /\ pc' = "exit"
  /\ failure' = "FileNotFoundError"
  /\ msgs' = Append(msgs, "Can't find a config.")
  /\ UNCHANGED <<source, entry, request, cfg, dlLocals, reqLog, batchCalls, returned,
                 candles, file, bars>>

\* The config is loaded, the defaults are set and the times converted.
LoadConfig ==
  /\ pc = "main"
  /\ cfg' = [cfg EXCEPT
       !.from_time = time_to_unix(IF @ = None THEN MIN_TIME ELSE @),
       !.to_time = time_to_unix(IF @ = None THEN Now ELSE @)]
  /\ pc' = "download"
  /\ UNCHANGED <<source, entry, request, dlLocals, reqLog, batchCalls, returned,
                 candles, file, msgs, bars, failure>>

\* download(api, cfg) is entered and makes its first batch call.
CallDownload ==
  /\ pc = "download"
  /\ pc' = "first"
  /\ batchCalls' = 1
  /\ msgs' = IF entry = "main" THEN Append(msgs, "Downloading candles...")
             ELSE msgs
  /\ request' = [from_time |-> cfg.from_time, to_time |-> cfg.to_time]
  /\ UNCHANGED <<source, entry, cfg, dlLocals, reqLog, returned, candles,
                 file, bars, failure>>

\* One attempt of api.instrument.candles(**kwargs) ends in a connection
\* failure: the loop goes on, and after the last attempt its else clause
\* raises ConnectionError.
AttemptFails ==
  /\ pc \in {"first", "loop"}
  /\ \E e \in ConnectionFaults :
       /\ reqLog' = Logged(e, "")
       /\ IF ~Retryable(e) THEN Raise(e)
          ELSE IF Len(reqLog') >= RetryLimit THEN Raise("ConnectionError")
          ELSE UNCHANGED <<pc, msgs, failure>>
  /\ UNCHANGED <<source, entry, request, cfg, dlLocals, batchCalls, returned,
                 candles, file, bars>>

\* An attempt gets an error response, which download() does not catch.
BatchFails ==
  /\ pc \in {"first", "loop"}
  /\ \E r \in Responses(Kwargs(cfg)) :
       /\ ErrorOf(r) # "none"
       /\ ~CaughtByDownload(ErrorOf(r), pc)
       /\ Raise(ErrorOf(r))
       /\ reqLog' = Logged(ErrorOf(r), r.errorMessage)
  /\ UNCHANGED <<source, entry, request, cfg, dlLocals, batchCalls, returned,
                 candles, file, bars>>

\* except MaxCountError: download() turns to batches of MAX_API_CANDLES and
\* makes the first call of the loop.
SwitchToBatches ==
  /\ pc \in {"first", "loop"}
  /\ \E r \in Responses(Kwargs(cfg)) :
       /\ ErrorOf(r) # "none"
       /\ CaughtByDownload(ErrorOf(r), pc)
       /\ reqLog' = Logged(ErrorOf(r), r.errorMessage)
  /\ result' = <<>>
  /\ to_time' = cfg.to_time
  /\ from_time' = cfg.from_time
  /\ cfg' = [cfg EXCEPT !.to_time = None, !.count = MAX_API_CANDLES]
  /\ is_first_batch' = TRUE
  /\ pc' = "loop"
  /\ batchCalls' = batchCalls + 1
  /\ UNCHANGED <<source, entry, request, batch, returned, candles, file, msgs,
                 bars, failure>>

\* The first batch call returns its candles: download() returns them.
SingleBatch ==
  /\ pc = "first"
  /\ \E r \in Responses(Kwargs(cfg)) :
       /\ ErrorOf(r) = "none"
       /\ batch' = CandlesOf(r)
       /\ result' = batch'
       /\ Return(result')
  /\ reqLog' = Logged("none", "")
  /\ UNCHANGED <<source, entry, request, cfg, to_time, from_time,
                 is_first_batch, batchCalls, file, bars>>

\* A batch call of the loop returns no candle: break, download() returns.
EmptyBatch ==
  /\ pc = "loop"
  /\ \E r \in Responses(Kwargs(cfg)) :
       /\ ErrorOf(r) = "none"
       /\ batch' = CandlesOf(r)
       /\ Len(batch') = 0
  /\ Return(result)
  /\ reqLog' = Logged("none", "")
  /\ UNCHANGED <<source, entry, request, cfg, to_time, from_time,
                 is_first_batch, result, batchCalls, file, bars>>

\* A batch call of the loop returns candles that reach beyond to_time: those
\* up to to_time are appended; break, download() returns.
LastBatch ==
  /\ pc = "loop"
  /\ \E r \in Responses(Kwargs(cfg)) :
       /\ ErrorOf(r) = "none"
       /\ batch' = CandlesOf(r)
       /\ Len(batch') # 0
       /\ ~AppendsWhole(batch', to_time)
       /\ result' = result \o Truncated(batch', to_time)
       /\ Return(result')
  /\ reqLog' = Logged("none", "")
  /\ UNCHANGED <<source, entry, request, cfg, to_time, from_time,
                 is_first_batch, batchCalls, file, bars>>

\* A batch call of the loop returns candles within the time range: they are
\* appended, the window moves to the end of the batch, the progress bar is
\* printed and the next batch call is made.
WholeBatch ==
  /\ pc = "loop"
  /\ \E r \in Responses(Kwargs(cfg)) :
       /\ ErrorOf(r) = "none"
       /\ batch' = CandlesOf(r)
       /\ Len(batch') # 0
       /\ AppendsWhole(batch', to_time)
       /\ result' = result \o batch'
       /\ cfg' = [cfg EXCEPT !.from_time = MoveWindow(batch')]
       /\ from_time' = EffectiveStart(is_first_batch, from_time, batch')
       /\ is_first_batch' = FALSE
       /\ IF ProgressError(from_time', to_time) # "none"
            THEN /\ Raise(ProgressError(from_time', to_time))
                 /\ UNCHANGED <<bars, batchCalls>>
          ELSE /\ bars' = Append(bars, progress_bar(from_time',
                             time_to_unix(Last(batch').time), to_time))
               /\ batchCalls' = batchCalls + 1
               /\ UNCHANGED <<pc, msgs, failure>>
  /\ reqLog' = Logged("none", "")
  /\ UNCHANGED <<source, entry, request, to_time, returned, candles, file>>

(* ------------------------------- write --------------------------------- *)

dlState == <<cfg, dlLocals, reqLog, batchCalls, returned, candles, bars>>

\* open(name, 'w') creates or empties the file; csv.DictWriter then takes
\* the field names of candles[0], which an empty list does not have.
WriteOpen ==
  /\ pc = "write"
  /\ file' = [exists |-> TRUE, header |-> FALSE, rows |-> <<>>]
  /\ IF Len(candles) = 0 THEN Raise("IndexError")
     ELSE pc' = "header" /\ UNCHANGED <<msgs, failure>>
  /\ UNCHANGED <<source, entry, request, dlState>>

\* writer.writeheader()
WriteHeader ==
  /\ pc = "header"
  /\ file' = [file EXCEPT !.header = TRUE]
  /\ pc' = "rows"
  /\ UNCHANGED <<source, entry, request, dlState, msgs, failure>>

\* writer.writerow(line) for the next candle.
WriteRow ==
  /\ pc = "rows"
  /\ Len(file.rows) < Len(candles)
  /\ file' = [file EXCEPT !.rows = Append(@, candles[Len(@) + 1])]
  /\ UNCHANGED <<source, entry, request, dlState, pc, msgs, failure>>

\* All candles are written: the file is closed and the script ends.
WriteDone ==
  /\ pc = "rows"
  /\ Len(file.rows) = Len(candles)
  /\ pc' = "exit"
  /\ msgs' = Append(msgs, "Done.")
  /\ UNCHANGED <<source, entry, request, dlState, file, failure>>

\* Opening the file or writing to it fails; the with block closes the file
\* with what was written.
WriteFails ==
  /\ pc \in {"write", "header", "rows"}
  /\ Raise("IOError")
  /\ UNCHANGED <<source, entry, request, dlState, file>>

(* ----------------------------- interrupt ------------------------------- *)

\* KeyboardInterrupt while download() or write() runs, inside the try block
\* that has a clause for it.
Interrupt ==
  /\ pc \in {"download", "first", "loop", "write", "header", "rows"}
  /\ Raise("KeyboardInterrupt")
  /\ UNCHANGED <<source, entry, request, dlState, file>>

(* ---------------------------- specification ---------------------------- *)

Next ==
  \/ ConfigMissing
  \/ LoadConfig
  \/ CallDownload
  \/ AttemptFails
  \/ BatchFails
  \/ SwitchToBatches
  \/ SingleBatch
  \/ EmptyBatch
  \/ LastBatch
  \/ WholeBatch
  \/ WriteOpen
  \/ WriteHeader
  \/ WriteRow
  \/ WriteDone
  \/ WriteFails
  \/ Interrupt

Spec == Init /\ [][Next]_vars

TypeOK ==
  /\ pc \in {"main", "download", "first", "loop", "write", "header", "rows",
             "exit", "crashed", "returned", "raised"}
  /\ Len(reqLog) <= RetryLimit
  /\ batchCalls \in 0..(MaxT + 3)

(* ------------------------------- claims -------------------------------- *)

Paginated == cfg.count # Absent

StrictlyIncreasing(cs) ==
  \A i, j \in 1..Len(cs) :
    i < j => time_to_unix(cs[i].time) < time_to_unix(cs[j].time)

\* The candles one unbounded call for the requested range would give.
Expected ==
  SortedSeq({t \in source :
               /\ t > request.from_time
               /\ request.to_time = None \/ t <= request.to_time})

\* C1: when download() has returned and an end time was given, no candle of
\* the returned result is later than the end time.
C1_NoCandleAfterToTime ==
  (returned /\ request.to_time # None) =>
    \A i \in 1..Len(candles) : time_to_unix(candles[i].time) <= request.to_time

\* download() returned after whole batches and a batch that reaches beyond
\* the end time.
C1_Witness ==
  /\ returned /\ Paginated /\ request.to_time # None
  /\ batchCalls >= 3
  /\ batch # <<>>
  /\ batch[1].time <= request.to_time
  /\ Last(batch).time > request.to_time

\* C2: a download that went through batches and returned gives exactly the
\* candles of the requested range, each once, in order.
C2_BatchesEqualOneCall ==
  (returned /\ Paginated) => Times(candles) = Expected

\* Two batches were appended, the second one cut at a candle whose time is
\* the end time, and the data source has later candles.
C2_Witness ==
  /\ returned /\ Paginated
  /\ batchCalls >= 3
  /\ Len(candles) > MAX_API_CANDLES
  /\ Last(candles).time = request.to_time
  /\ batch # <<>>
  /\ Last(batch).time > request.to_time

\* C3: the accumulated result is strictly increasing by time in every state.
C3_ResultStrictlyIncreasing ==
  StrictlyIncreasing(result) /\ StrictlyIncreasing(candles)

\* The loop runs with two batches accumulated.
C3_Witness ==
  /\ pc = "loop"
  /\ batchCalls >= 4
  /\ Len(result) >= 2 * MAX_API_CANDLES

\* The first batch call got its candles.
FirstCallSucceeded ==
  /\ reqLog # <<>>
  /\ Last(reqLog).outcome = "none"
  /\ Last(reqLog).kwargs.count = Absent

\* C4: when the first batch call succeeds, it is the only batch call, the
\* loop is not entered, and download() returns the candles of that call's
\* response as they are.
C4_SingleBatchUnmodified ==
  FirstCallSucceeded =>
    /\ batchCalls = 1
    /\ ~Paginated
    /\ pc \notin {"first", "loop"}
    /\ bars = <<>>
    /\ returned
    /\ candles = batch
    /\ Times(candles) = SortedSeq(Window(Kwargs(cfg)))

\* A first call returned as many candles as one response can hold while the
\* data source has candles after the end time.
C4_Witness ==
  /\ FirstCallSucceeded
  /\ returned
  /\ Len(candles) = MAX_API_CANDLES
  /\ request.to_time # None
  /\ \E t \in source : t > request.to_time

AllAttemptsFailed(log) ==
  /\ Len(log) = 5
  /\ \A i \in 1..Len(log) : log[i].outcome \in ConnectionFaults

\* C5: a batch call makes at most 5 attempts, all with the same request;
\* no attempt follows a response; the call fails with ConnectionError
\* exactly when 5 attempts ended in a timeout or a connection error.
C5_RetryAtMostFive ==
  /\ Len(reqLog) <= 5
  /\ \A i \in 1..Len(reqLog) : reqLog[i].kwargs = reqLog[1].kwargs
  /\ \A i \in 1..(Len(reqLog) - 1) : reqLog[i].outcome \in ConnectionFaults
  /\ failure = "ConnectionError" <=> AllAttemptsFailed(reqLog)
  /\ failure \notin ConnectionFaults

\* A batch call of the loop failed after timeouts and connection errors.
C5_Witness ==
  /\ failure = "ConnectionError"
  /\ Paginated
  /\ result # <<>>
  /\ \E i, j \in 1..Len(reqLog) :
       reqLog[i].outcome = "V20Timeout" /\ reqLog[j].outcome = "V20ConnectionError"

\* The latest batch call failed with ConnectionError or APIError.
BatchCallFailed(log) ==
  log # <<>> /\ (Last(log).outcome = "APIError" \/ AllAttemptsFailed(log))

\* C6: a batch call that fails with ConnectionError or APIError ends the
\* download: no batch call or attempt follows, download() returns nothing,
\* and the output file is not opened.
C6_FailureAborts ==
  [][BatchCallFailed(reqLog') =>
       /\ failure' \in {"ConnectionError", "APIError"}
       /\ pc' \in {"exit", "raised"}
       /\ ~returned' /\ candles' = <<>>
       /\ ~file'.exists
       /\ batchCalls' = batchCalls
       /\ BatchCallFailed(reqLog) => reqLog' = reqLog]_vars

\* The script ended on an APIError of a later batch call, with candles
\* accumulated.
C6_Witness ==
  /\ pc = "exit"
  /\ failure = "APIError"
  /\ batchCalls >= 3
  /\ result # <<>>
  /\ ~file.exists

\* C7: after an interrupt the output file is not written at all or holds
\* the header and every candle of the result.
C7_InterruptAllOrNothing ==
  (pc = "exit" /\ failure = "KeyboardInterrupt") =>
    \/ ~file.exists
    \/ returned /\ file.header /\ file.rows = candles

\* C8: every failure of a run ends with a printed message and a normal
\* return of the script.
C8_FailuresReturnNormally ==
  (entry = "main" /\ failure # "none") =>
    pc = "exit" /\ msgs # <<>> /\ Last(msgs) # "Writing to csv file..."

\* C9: a run whose download gives no candle ends with the message
\* "No results." and without an output file.
C9_NoResultsMessage ==
  (/\ entry = "main" /\ returned /\ candles = <<>>
   /\ pc \in {"exit", "crashed"}
   /\ failure \notin {"KeyboardInterrupt", "IOError"}) =>
    /\ pc = "exit"
    /\ Last(msgs) = "No results."
    /\ ~file.exists

\* C10: with to_time None, a download in batches ends only on an empty
\* batch and returns every candle after from_time.
C10_OpenEndedUntilEmpty ==
  (/\ Paginated /\ request.to_time = None
   /\ pc \in {"returned", "raised"}
   /\ failure \notin {"ConnectionError", "APIError", "MaxCountError",
                      "KeyboardInterrupt"}) =>
    /\ returned
    /\ batch = <<>>
    /\ Times(candles) = Expected

\* C11: with a start and an end time, the result of a completed download is
\* a function of the configuration and the data source alone: whatever the
\* connection failures retried and whether one call or batches were used,
\* it is the candles of the requested range, and a finished file holds them.
C11_ResultDeterminedByRequest ==
  (returned /\ request.to_time # None) =>
    /\ Times(candles) = Expected
    /\ (pc = "exit" /\ failure = "none") => file.rows = candles

\* A download in batches completed although the call that returned its last
\* batch was retried after a timeout and a connection error.
C11_Witness ==
  /\ returned /\ Paginated /\ request.to_time # None
  /\ Len(candles) > MAX_API_CANDLES
  /\ \E i, j \in 1..Len(reqLog) :
       reqLog[i].outcome = "V20Timeout" /\ reqLog[j].outcome = "V20ConnectionError"

\* C12: the progress bar's start time is the time of the first candle
\* received, it does not change once a bar is printed, and every bar shows
\* a percentage from 0 to 100.
C12_ProgressStartAndRange ==
  [][/\ bars' # <<>> => from_time' = time_to_unix(result'[1].time)
     /\ bars # <<>> => from_time' = from_time
     /\ \A i \in 1..Len(bars') :
          /\ bars'[i].den > 0
          /\ 0 <= bars'[i].num
          /\ bars'[i].num <= 100 * bars'[i].den]_vars

\* Two bars were printed in a download whose from_time lies before the
\* first candle of the data source by more than one time unit.
C12_Witness ==
  /\ Len(bars) >= 2
  /\ time_to_unix(result[1].time) > request.from_time + 1
  /\ bars[1].num < bars[2].num

\* The step issues or retries a batch request of the loop at the cursor.
CursorAfterBatch == pc' = "loop" /\ batchCalls' >= 3

\* C13: in the loop every request carries count = MAX_API_CANDLES and no end
\* time; a call after the first one of the loop starts at the time of the
\* last candle of the batch before it; the cursor never moves backwards and
\* is left alone by a retry and by an empty batch.
C13_CursorFollowsLastCandle ==
  [][Paginated' =>
       /\ Kwargs(cfg').count = MAX_API_CANDLES
       /\ Kwargs(cfg').toTime = Absent
       /\ \A i \in 1..Len(reqLog') :
            reqLog'[i].kwargs.count # Absent =>
              /\ reqLog'[i].kwargs.count = MAX_API_CANDLES
              /\ reqLog'[i].kwargs.toTime = Absent
       /\ cfg'.from_time >= cfg.from_time
       /\ CursorAfterBatch =>
            /\ batch' # <<>>
            /\ Kwargs(cfg').fromTime = Last(batch').time
       /\ (Last(reqLog').outcome \in ConnectionFaults \/ batch' = <<>>) =>
            cfg'.from_time = cfg.from_time]_vars

\* The third call of the loop is being retried at the cursor.
C13_Witness ==
  /\ pc = "loop"
  /\ batchCalls >= 4
  /\ reqLog # <<>>
  /\ Last(reqLog).outcome \in ConnectionFaults
  /\ Last(reqLog).kwargs.fromTime = Last(result).time

\* The last n candles of cs.
Tail_(cs, n) == SubSeq(cs, Len(cs) - n + 1, Len(cs))

\* How many candles of b are not later than to.
UpTo(b, to) == Cardinality({i \in 1..Len(b) : time_to_unix(b[i].time) <= to})

\* The batch call after the latest batch ended the download by failing.
NextCallFailed ==
  failure \in {"ConnectionError", "APIError", "MaxCountError", "KeyboardInterrupt"}

\* C14: with an end time, the latest batch of the loop either holds a candle
\* later than to_time, and then exactly its candles up to to_time were
\* appended and download() returned without another batch call; or it lies
\* at or before to_time, and then it was appended whole and another batch
\* call followed.
C14_TruncateAndStopOrContinue ==
  (Paginated /\ to_time # None /\ batch # <<>>) =>
    IF time_to_unix(Last(batch).time) > to_time
      THEN /\ returned /\ pc # "loop"
           /\ Len(result) >= UpTo(batch, to_time)
           /\ Tail_(result, UpTo(batch, to_time))
                = SubSeq(batch, 1, UpTo(batch, to_time))
      ELSE /\ Len(result) >= Len(batch)
           /\ Tail_(result, Len(batch)) = batch
           /\ pc = "loop" \/ returned \/ NextCallFailed

\* C15: with an end time and no failing batch call, a download in batches
\* reaches its return, and it returns on an empty batch or on a batch that
\* reaches beyond to_time.
C15_LoopReachesReturn ==
  (Paginated /\ request.to_time # None) =>
    /\ (pc # "loop" /\ ~NextCallFailed) => returned
    /\ returned =>
         batch = <<>> \/ time_to_unix(Last(batch).time) > request.to_time

\* C20: a progress bar is computed with an end time later than its start
\* time, so the division does not fail.
C20_DenominatorNotZero ==
  (Paginated /\ ~is_first_batch /\ to_time # None) =>
    /\ to_time > from_time
    /\ failure # "ZeroDivisionError"

\* The step makes an attempt that gets the count error as its response.
GetsMaxCountError ==
  reqLog' # reqLog /\ Last(reqLog').outcome = "MaxCountError"

\* C16: the single-batch attempt is entered once, from the start of
\* download(); the loop is entered at most once, from the single-batch
\* attempt and on its count error only, and never left for the single-batch
\* attempt; once download() has returned, no batch call or attempt is made
\* and the result does not change.
C16_StateMachine ==
  [][/\ pc' = "download" => pc \in {"main", "download"}
     /\ pc' = "first" => pc \in {"download", "first"}
     /\ (pc' = "loop" /\ pc # "loop") =>
          pc = "first" /\ GetsMaxCountError /\ ~Paginated
     /\ Paginated' = (pc' = "loop" \/ Paginated)
     /\ pc = "loop" =>
          /\ pc' # "first"
          /\ pc' = "loop" => Len(result') >= Len(result)
          /\ is_first_batch' => is_first_batch
     /\ returned =>
          /\ returned' /\ candles' = candles /\ result' = result
          /\ batchCalls' = batchCalls /\ reqLog' = reqLog
          /\ pc' \notin {"download", "first", "loop"}]_vars

\* A run of the script went through the single-batch attempt and the loop
\* and wrote its file.
C16_Witness ==
  /\ pc = "exit" /\ failure = "none"
  /\ Paginated /\ batchCalls >= 3
  /\ file.rows = candles

\* C17: the count error of the first batch call turns download() to the
\* loop and is no failure; the count error of a batch call of the loop
\* leaves download() as MaxCountError: nothing is returned and the output
\* file is not opened.
C17_MaxCountCaughtOnFirstOnly ==
  [][GetsMaxCountError =>
       IF pc = "first"
         THEN pc' = "loop" /\ failure' = "none"
       ELSE /\ failure' = "MaxCountError"
            /\ pc' \in {"crashed", "raised"}
            /\ ~returned' /\ candles' = <<>>
            /\ ~file'.exists]_vars

\* The loop had appended a batch when a batch call got the count error.
C17_Witness ==
  /\ failure = "MaxCountError"
  /\ pc = "crashed"
  /\ result # <<>>
  /\ ~file.exists

\* The step makes an attempt that gets an error response.
GetsErrorResponse == reqLog' # reqLog /\ Last(reqLog').message # ""

\* C18: an error response ends the batch call: with MaxCountError exactly
\* when its message is the count message, else with APIError, whatever
\* connection failures came before it; the same request is not sent again.
C18_ErrorResponseClassified ==
  [][GetsErrorResponse =>
       /\ Last(reqLog').outcome =
            IF Last(reqLog').message = MaxCountMsg THEN "MaxCountError"
            ELSE "APIError"
       /\ \A i \in 1..(Len(reqLog') - 1) :
            reqLog'[i].outcome \in ConnectionFaults
       /\ IF pc' \in {"first", "loop"}
            THEN /\ Last(reqLog').outcome = "MaxCountError"
                 /\ Kwargs(cfg') # Last(reqLog').kwargs
          ELSE failure' = Last(reqLog').outcome]_vars

\* A batch call of the loop ended with APIError on the fifth attempt, after
\* timeouts and connection errors.
C18_Witness ==
  /\ failure = "APIError"
  /\ Paginated
  /\ Len(reqLog) = 5
  /\ Last(reqLog).message = OtherMsg
  /\ \E i, j \in 1..Len(reqLog) :
       reqLog[i].outcome = "V20Timeout" /\ reqLog[j].outcome = "V20ConnectionError"

\* The request carries the parameter.
Has(v) == v # Absent /\ v # None

\* The request carries from_time and exactly one of count and to_time:
\* to_time in the first call, count in a call of the loop.
OneOfCountOrToTime(kw, firstCall) ==
  /\ Has(kw.fromTime)
  /\ Has(kw.count) # Has(kw.toTime)
  /\ firstCall = Has(kw.toTime)

\* C19 as claimed: every request carries from_time and exactly one of count
\* and to_time, the first call to_time only and a call of the loop count
\* only.
C19_ExactlyOneOfCountOrToTime ==
  /\ \A i \in 1..Len(reqLog) :
       OneOfCountOrToTime(reqLog[i].kwargs, reqLog[i].kwargs.count = Absent)
  /\ pc \in {"first", "loop"} => OneOfCountOrToTime(Kwargs(cfg), pc = "first")

\* The same, except that the first call of a download() called with to_time
\* None carries neither count nor to_time.
OneOrOpenEnded(kw, firstCall) ==
  IF firstCall /\ request.to_time = None
    THEN Has(kw.fromTime) /\ ~Has(kw.count) /\ ~Has(kw.toTime)
  ELSE OneOfCountOrToTime(kw, firstCall)

\* C19 as amended: every request carries from_time and exactly one of count
\* and to_time, the first call to_time only and a call of the loop count
\* only, except that the first call of a download() called with to_time
\* None carries neither.
C19_OneOfCountOrToTimeIfGiven ==
  /\ \A i \in 1..Len(reqLog) :
       OneOrOpenEnded(reqLog[i].kwargs, reqLog[i].kwargs.count = Absent)
  /\ pc \in {"first", "loop"} => OneOrOpenEnded(Kwargs(cfg), pc = "first")

\* A call of the loop is being retried in a download with an end time.
C19_Witness ==
  /\ pc = "loop"
  /\ request.to_time # None
  /\ batchCalls >= 3
  /\ Len(reqLog) >= 2
  /\ Has(Last(reqLog).kwargs.count)

====
